---- MODULE Spec2Model ----
(***************************************************************************)
(* Model of src/utils/config.js: parseSheetIdFromUrl, loadConfig,          *)
(* validateConfig and isValidCellAddress.                                  *)
(*                                                                         *)
(* JavaScript strings are sequences of one-character strings.  JavaScript  *)
(* values are tagged records [t, v]: t is "undefined", "string" or         *)
(* "array".                                                                *)
(***************************************************************************)
EXTENDS Integers, Sequences, FiniteSets, TLC

VARIABLES
  purl,        \* argument of a direct call of parseSheetIdFromUrl
  pres,        \* result of that call
  cellAddress, \* argument of a direct call of isValidCellAddress
  cres,        \* result of that call
  vin,         \* argument `config` of validateConfig
  vpc,         \* position inside validateConfig
  vidx,        \* index of the next forEach callback
  examined,    \* indexes for which the forEach callback has run
  verr,        \* error thrown by validateConfig, NoError if none
  pc,          \* position inside loadConfig
  env,         \* process.env.DATABASE_SHEET_ID
  initCalls,   \* calls of sheetsService.initialize()
  fetchCalls,  \* calls of sheetsService.getRange()
  rows,        \* const rows
  i,           \* loop variable of the row loop
  config,      \* const config (the array being built)
  thrown,      \* error travelling to the catch clause of loadConfig
  outcome      \* what loadConfig's promise settles to

vars == <<purl, pres, cellAddress, cres, vin, vpc, vidx, examined, verr,
          pc, env, initCalls, fetchCalls, rows, i, config, thrown, outcome>>

parseVars == <<purl, pres>>
cellVars == <<cellAddress, cres>>
validateVars == <<vin, vpc, vidx, examined, verr>>
loadVars == <<pc, env, initCalls, fetchCalls, rows, i, config, thrown, outcome>>

(***************************************************************************)
(* Bounds of the model.                                                    *)
(***************************************************************************)
MaxPieces == 3
MaxCellLen == 4
MaxRecords == 2
MaxRows == 2
MaxDefects == 2

(***************************************************************************)
(* JavaScript values.                                                      *)
(***************************************************************************)
Undef == [t |-> "undefined", v |-> <<>>]
Str(s) == [t |-> "string", v |-> s]
Arr(s) == [t |-> "array", v |-> s]

\* ToBoolean on the values of the model: undefined and "" are falsy
Truthy(x) == x.t = "array" \/ (x.t = "string" /\ x.v # <<>>)

\* Array.isArray
IsArray(x) == x.t = "array"

\* ToString of the language, as template literals and RegExp.prototype.test apply it
JSToString(x) ==
  IF x.t = "undefined" THEN <<"u","n","d","e","f","i","n","e","d">> ELSE x.v

(***************************************************************************)
(* Character classes.                                                      *)
(***************************************************************************)
Upper == {"A","B","C","D","E","F","G","H","I","J","K","L","M",
          "N","O","P","Q","R","S","T","U","V","W","X","Y","Z"}
Lower == {"a","b","c","d","e","f","g","h","i","j","k","l","m",
          "n","o","p","q","r","s","t","u","v","w","x","y","z"}
Digit == {"0","1","2","3","4","5","6","7","8","9"}
NonZeroDigit == Digit \ {"0"}
\* the class [a-zA-Z0-9-_] of the regular expression at line 15
IdChar == Lower \cup Upper \cup Digit \cup {"-", "_"}
\* what String.prototype.trim removes (the members the model uses)
WhiteSpace == {" ", "\t", "\n", "\r"}

\* the literal part of the regular expression at line 15
SheetPrefix == <<"/","s","p","r","e","a","d","s","h","e","e","t","s","/","d","/">>

(***************************************************************************)
(* String helpers.                                                         *)
(***************************************************************************)
RECURSIVE TrimStart(_)
TrimStart(s) ==
  IF s # <<>> /\ Head(s) \in WhiteSpace THEN TrimStart(Tail(s)) ELSE s

RECURSIVE TrimEnd(_)
TrimEnd(s) ==
  IF s # <<>> /\ s[Len(s)] \in WhiteSpace
  THEN TrimEnd(SubSeq(s, 1, Len(s) - 1)) ELSE s

\* String.prototype.trim
Trim(s) == TrimEnd(TrimStart(s))

RECURSIVE Concat(_)
Concat(ss) == IF ss = <<>> THEN <<>> ELSE Head(ss) \o Concat(Tail(ss))

\* all sequences over S of length at most n
SeqUpTo(S, n) == UNION {[1..k -> S] : k \in 0..n}

(***************************************************************************)
(* isValidCellAddress: /^[A-Z]+[1-9][0-9]*$/.test(cellAddress).            *)
(* The expression is run as the matcher runs it: anchored at the start,    *)
(* consume the letters, then one non-zero digit, then the digits, and      *)
(* succeed only at the end of the input.  The classes are disjoint, so     *)
(* the greedy scan never needs to backtrack.                               *)
(***************************************************************************)
RECURSIVE SkipClass(_, _, _)
\* the position after the longest run of characters of class C from p on
SkipClass(s, p, C) ==
  IF p <= Len(s) /\ s[p] \in C THEN SkipClass(s, p + 1, C) ELSE p

\* variant: the row number may start with 0 ([0-9] for [1-9])
CellRegexTestAnyDigit(s) ==
  LET afterLetters == SkipClass(s, 1, Upper)
  IN  /\ afterLetters > 1
      /\ afterLetters <= Len(s)
      /\ s[afterLetters] \in Digit
      /\ SkipClass(s, afterLetters + 1, Digit) = Len(s) + 1

CellRegexTest(s) ==
  LET afterLetters == SkipClass(s, 1, Upper)
  IN  /\ afterLetters > 1
      /\ afterLetters <= Len(s)
      /\ s[afterLetters] \in NonZeroDigit
      /\ SkipClass(s, afterLetters + 1, Digit) = Len(s) + 1

isValidCellAddress(x) == CellRegexTest(JSToString(x))

(***************************************************************************)
(* parseSheetIdFromUrl.  url.match(re) without the g flag tries the start  *)
(* positions from left to right; at a position the literal must match,     *)
(* then the group takes the longest run of IdChar, which must not be       *)
(* empty.                                                                  *)
(***************************************************************************)
NoError == [msg |-> "", index |-> -1, field |-> "", value |-> Undef]
Err(m, idx, f, val) == [msg |-> m, index |-> idx, field |-> f, value |-> val]

LiteralAt(s, p) ==
  /\ p + Len(SheetPrefix) - 1 <= Len(s)
  /\ SubSeq(s, p, p + Len(SheetPrefix) - 1) = SheetPrefix

\* variant: a lazy group, which takes one character only
CaptureAtLazy(s, p) ==
  IF LiteralAt(s, p) /\ p + Len(SheetPrefix) <= Len(s)
                     /\ s[p + Len(SheetPrefix)] \in IdChar
  THEN <<s[p + Len(SheetPrefix)]>>
  ELSE <<>>

\* the capture group when the expression is tried at position p, <<>> if
\* the attempt fails
CaptureAt(s, p) ==
  IF LiteralAt(s, p)
  THEN LET b == p + Len(SheetPrefix)
       IN  SubSeq(s, b, SkipClass(s, b, IdChar) - 1)
  ELSE <<>>

RECURSIVE MatchFrom(_, _)
\* match[1] of the first successful attempt at a position >= p; <<>> when
\* there is none (match is null)
MatchFrom(s, p) ==
  IF p > Len(s) THEN <<>>
  ELSE IF CaptureAt(s, p) # <<>> THEN CaptureAt(s, p)
  ELSE MatchFrom(s, p + 1)

parseSheetIdFromUrl(url) ==
  LET m == MatchFrom(url, 1)
  IN  IF m = <<>>
      THEN [ok |-> FALSE, id |-> <<>>,
            error |-> Err("Invalid Google Sheets URL: ", -1, "", Str(url))]
      ELSE [ok |-> TRUE, id |-> m, error |-> NoError]

(***************************************************************************)
(* new URL(input) at line 151 throws for a string that is not an absolute  *)
(* URL.  The constructor is the platform's; the model follows the URL      *)
(* parser for inputs without userinfo, port, query or fragment: strip      *)
(* leading and trailing spaces and control characters, require a scheme    *)
(* [A-Za-z][A-Za-z0-9+.-]* followed by ":", and after a special scheme, or *)
(* after "//", require a host without forbidden characters (non-empty      *)
(* when the scheme is special).                                            *)
(***************************************************************************)
SchemeChar == Lower \cup Upper \cup Digit \cup {"+", "-", "."}
HostChar == Lower \cup Upper \cup Digit \cup {"-", ".", "_"}
SpecialSchemes == {<<"h","t","t","p">>, <<"h","t","t","p","s">>,
                   <<"f","t","p">>, <<"w","s">>, <<"w","s","s">>}

RECURSIVE SkipSlashes(_)
SkipSlashes(s) ==
  IF s # <<>> /\ Head(s) \in {"/", "\\"} THEN SkipSlashes(Tail(s)) ELSE s

\* the host: the characters up to the first "/" (or the end)
RECURSIVE HostOf(_)
HostOf(s) ==
  IF s = <<>> \/ Head(s) \in {"/", "\\"} THEN <<>>
  ELSE <<Head(s)>> \o HostOf(Tail(s))

URLParses(input) ==
  LET s == Trim(input)
      colon == SkipClass(s, 1, SchemeChar)
      scheme == SubSeq(s, 1, colon - 1)
      rest == SubSeq(s, colon + 1, Len(s))
      hostOk(h) == \A k \in 1..Len(h) : h[k] \in HostChar
  IN  /\ s # <<>>
      /\ s[1] \in Lower \cup Upper
      /\ colon <= Len(s)
      /\ s[colon] = ":"
      /\ IF scheme \in SpecialSchemes
         THEN LET h == HostOf(SkipSlashes(rest))
              IN  h # <<>> /\ hostOk(h)
         ELSE IF Len(rest) >= 2 /\ SubSeq(rest, 1, 2) = <<"/", "/">>
              THEN hostOk(HostOf(SubSeq(rest, 3, Len(rest))))
              ELSE TRUE

(***************************************************************************)
(* validateConfig.                                                         *)
(***************************************************************************)
requiredFields ==
  <<"name", "sheetId", "webhookUrl", "currentSuppliesCell",
    "dailyConsumptionCell">>

RECURSIVE FirstMissing(_, _)
\* the for..of loop of lines 141-147: the first field of fs that is falsy
\* in sheetConfig, "" when there is none
FirstMissing(sheetConfig, fs) ==
  IF fs = <<>> THEN ""
  ELSE IF ~Truthy(sheetConfig[Head(fs)]) THEN Head(fs)
  ELSE FirstMissing(sheetConfig, Tail(fs))

\* variant: dailyConsumptionCell is not checked against the grammar
CheckSheetConfigNoDailyCell(sheetConfig, index) ==
  LET missing == FirstMissing(sheetConfig, requiredFields)
  IN  IF missing # ""
      THEN Err("is missing required field: ", index, missing, Undef)
      ELSE IF ~URLParses(JSToString(sheetConfig.webhookUrl))
      THEN Err("has invalid webhook URL: ", index, "webhookUrl",
               sheetConfig.webhookUrl)
      ELSE IF ~isValidCellAddress(sheetConfig.currentSuppliesCell)
      THEN Err("has invalid currentSuppliesCell: ", index,
               "currentSuppliesCell", sheetConfig.currentSuppliesCell)
      ELSE NoError

\* variant: the cell addresses are checked before the webhook URL
CheckSheetConfigCellsFirst(sheetConfig, index) ==
  LET missing == FirstMissing(sheetConfig, requiredFields)
  IN  IF missing # ""
      THEN Err("is missing required field: ", index, missing, Undef)
      ELSE IF ~isValidCellAddress(sheetConfig.currentSuppliesCell)
      THEN Err("has invalid currentSuppliesCell: ", index,
               "currentSuppliesCell", sheetConfig.currentSuppliesCell)
      ELSE IF ~isValidCellAddress(sheetConfig.dailyConsumptionCell)
      THEN Err("has invalid dailyConsumptionCell: ", index,
               "dailyConsumptionCell", sheetConfig.dailyConsumptionCell)
      ELSE IF ~URLParses(JSToString(sheetConfig.webhookUrl))
      THEN Err("has invalid webhook URL: ", index, "webhookUrl",
               sheetConfig.webhookUrl)
      ELSE NoError

\* variant: the webhook URL is not parsed
CheckSheetConfigNoUrl(sheetConfig, index) ==
  LET missing == FirstMissing(sheetConfig, requiredFields)
  IN  IF missing # ""
      THEN Err("is missing required field: ", index, missing, Undef)
      ELSE IF ~isValidCellAddress(sheetConfig.currentSuppliesCell)
      THEN Err("has invalid currentSuppliesCell: ", index,
               "currentSuppliesCell", sheetConfig.currentSuppliesCell)
      ELSE IF ~isValidCellAddress(sheetConfig.dailyConsumptionCell)
      THEN Err("has invalid dailyConsumptionCell: ", index,
               "dailyConsumptionCell", sheetConfig.dailyConsumptionCell)
      ELSE NoError

\* the forEach callback of lines 132-170: the error it throws, NoError
\* when it returns
CheckSheetConfig(sheetConfig, index) ==
  LET missing == FirstMissing(sheetConfig, requiredFields)
  IN  IF missing # ""
      THEN Err("is missing required field: ", index, missing, Undef)
      ELSE IF ~URLParses(JSToString(sheetConfig.webhookUrl))
      THEN Err("has invalid webhook URL: ", index, "webhookUrl",
               sheetConfig.webhookUrl)
      ELSE IF ~isValidCellAddress(sheetConfig.currentSuppliesCell)
      THEN Err("has invalid currentSuppliesCell: ", index,
               "currentSuppliesCell", sheetConfig.currentSuppliesCell)
      ELSE IF ~isValidCellAddress(sheetConfig.dailyConsumptionCell)
      THEN Err("has invalid dailyConsumptionCell: ", index,
               "dailyConsumptionCell", sheetConfig.dailyConsumptionCell)
      ELSE NoError

MsgNotArray == "Configuration must be an array of sheet configurations"
MsgEmptyArray == "Configuration must contain at least one sheet configuration"

\* lines 122-130: the two checks of the argument itself
ValidateEntry ==
  /\ vpc = "entry"
  /\ IF ~IsArray(vin)
     THEN verr' = Err(MsgNotArray, -1, "", Undef) /\ vpc' = "done"
     ELSE IF Len(vin.v) = 0
     THEN verr' = Err(MsgEmptyArray, -1, "", Undef) /\ vpc' = "done"
     ELSE verr' = verr /\ vpc' = "forEach"
  /\ UNCHANGED <<vin, vidx, examined>>
  /\ UNCHANGED <<parseVars, cellVars, loadVars>>

\* one call of the forEach callback; a throw ends the iteration
ValidateRecord ==
  /\ vpc = "forEach"
  /\ vidx < Len(vin.v)
  /\ LET e == CheckSheetConfig(vin.v[vidx + 1], vidx)
     IN  /\ examined' = examined \cup {vidx}
         /\ IF e # NoError
            THEN verr' = e /\ vpc' = "done" /\ vidx' = vidx
            ELSE verr' = verr /\ vpc' = vpc /\ vidx' = vidx + 1
  /\ UNCHANGED vin
  /\ UNCHANGED <<parseVars, cellVars, loadVars>>

\* line 172: forEach is over, validateConfig returns
ValidateFinish ==
  /\ vpc = "forEach"
  /\ vidx = Len(vin.v)
  /\ vpc' = "done"
  /\ UNCHANGED <<vin, vidx, examined, verr>>
  /\ UNCHANGED <<parseVars, cellVars, loadVars>>

(***************************************************************************)
(* loadConfig.                                                             *)
(***************************************************************************)
MsgEnvRequired == "DATABASE_SHEET_ID environment variable is required"
MsgNoData == "No commander data found in Commander Database sheet"
MsgNoValid ==
  "No valid commander configurations found in Commander Database sheet"
MsgInitializeFailed == "sheetsService.initialize() rejected"
MsgGetRangeFailed == "sheetsService.getRange() rejected"
MsgLoadFailed == "Configuration loading failed: "

Sheet1 == <<"S","h","e","e","t","1">>
C9 == <<"C","9">>
C11 == <<"C","1","1">>

NoOutcome == [t |-> "pending", v |-> <<>>, msg |-> "", cause |-> NoError]

\* row[k] for a 0-based k: undefined beyond the end of the row
Cell(row, k) == IF k + 1 <= Len(row) THEN row[k + 1] ELSE Undef

\* variant: the name is stored as it is in the cell
SheetConfigUntrimmedName(name, sheetId, webhookUrl) ==
  [name |-> name,
   sheetId |-> Str(sheetId),
   sheetName |-> Str(Sheet1),
   webhookUrl |-> Str(Trim(webhookUrl.v)),
   currentSuppliesCell |-> Str(C9),
   dailyConsumptionCell |-> Str(C11)]

\* the object literal pushed at lines 86-93
SheetConfig(name, sheetId, webhookUrl) ==
  [name |-> Str(Trim(name.v)),
   sheetId |-> Str(sheetId),
   sheetName |-> Str(Sheet1),
   webhookUrl |-> Str(Trim(webhookUrl.v)),
   currentSuppliesCell |-> Str(C9),
   dailyConsumptionCell |-> Str(C11)]

\* the condition of line 74
MissingRequired(name, sheetUrl, webhookUrl) ==
  ~Truthy(name) \/ ~Truthy(sheetUrl) \/ ~Truthy(webhookUrl)

\* variant: only an unset variable is refused, an empty one is not
NoDatabaseSheetIdUnsetOnly(e) == e.t = "undefined"

\* the condition of line 33
NoDatabaseSheetId(e) == ~Truthy(e)

\* variant: the length of the grid is not looked at
NoRowsFalsyOnly(r) == ~Truthy(r)

\* the condition of line 53
NoRows(r) == ~Truthy(r) \/ Len(r.v) = 0

(***************************************************************************)
(* Inputs.                                                                 *)
(***************************************************************************)
GoodHook == <<"h","t","t","p","s",":","/","/","h">>
EmptyCell == Str(<<>>)

\* the 13 cells A..M of a row
FullRow(n, u, h) ==
  <<Str(n), EmptyCell, Str(u), EmptyCell, EmptyCell, EmptyCell, EmptyCell,
    EmptyCell, EmptyCell, EmptyCell, EmptyCell, EmptyCell, Str(h)>>

RECURSIVE DropTrailingEmpty(_)
\* the tabular client omits the empty cells at the end of a row
DropTrailingEmpty(row) ==
  IF row # <<>> /\ row[Len(row)] = EmptyCell
  THEN DropTrailingEmpty(SubSeq(row, 1, Len(row) - 1)) ELSE row

NameInputs == {<<>>, <<" ">>, <<" ","A">>}
SheetUrlInputs ==
  {<<>>, <<" ">>, <<"x">>, SheetPrefix \o <<"a","_","/","e">>, SheetPrefix \o <<"b">>}
WebhookInputs == {<<>>, <<" ">>, <<"x">>, <<" ">> \o GoodHook \o <<" ">>}

RowInputs ==
  {DropTrailingEmpty(FullRow(n, u, h)) :
     n \in NameInputs, u \in SheetUrlInputs, h \in WebhookInputs}

GridInputs == {Undef} \cup {Arr(g) : g \in SeqUpTo(RowInputs, MaxRows)}

UrlPieces ==
  {SheetPrefix, Tail(SheetPrefix), <<"a">>, <<"-","9","_","Z">>, <<"/">>,
   <<"?">>}
UrlInputs == {Concat(ps) : ps \in SeqUpTo(UrlPieces, MaxPieces)}

CellAlphabet == {"A", "C", "a", "0", "1", "9"}
CellInputs == SeqUpTo(CellAlphabet, MaxCellLen)

GoodRecord == SheetConfig(Str(<<"A">>), <<"a">>, Str(GoodHook))
AllRecords ==
  [name : {Undef, GoodRecord.name},
   sheetId : {EmptyCell, GoodRecord.sheetId},
   sheetName : {GoodRecord.sheetName},
   webhookUrl : {Undef, Str(<<"x">>), GoodRecord.webhookUrl},
   currentSuppliesCell : {Undef, Str(<<"c","9">>), Str(C9)},
   dailyConsumptionCell : {Undef, Str(<<"A","0">>), Str(C11)}]
Defects(r) == {f \in DOMAIN r : r[f] # GoodRecord[f]}
RecordInputs == {r \in AllRecords : Cardinality(Defects(r)) <= MaxDefects}
ValidateInputs ==
  {Undef, Str(<<"x">>)} \cup
  {Arr(a) : a \in SeqUpTo(RecordInputs, MaxRecords)}

\* the body of the row loop, lines 61-98: config after row `row`
ScanOne(cfg, row) ==
  LET name == Cell(row, 0)
      sheetUrl == Cell(row, 2)
      webhookUrl == Cell(row, 12)
  IN  IF MissingRequired(name, sheetUrl, webhookUrl) THEN cfg
      ELSE LET parsed == parseSheetIdFromUrl(sheetUrl.v)
           IN  IF parsed.ok
               THEN Append(cfg, SheetConfig(name, parsed.id, webhookUrl))
               ELSE cfg

\* lines 31-35
CheckEnv ==
  /\ pc = "start"
  /\ IF NoDatabaseSheetId(env)
     THEN thrown' = Err(MsgEnvRequired, -1, "", Undef) /\ pc' = "catch"
     ELSE thrown' = thrown /\ pc' = "initialize"
  /\ UNCHANGED <<env, initCalls, fetchCalls, rows, i, config, outcome>>
  /\ UNCHANGED <<parseVars, cellVars, validateVars>>

\* lines 42-43: the awaited initialize() resolves or rejects
Initialize ==
  /\ pc = "initialize"
  /\ initCalls' = initCalls + 1
  /\ \E resolved \in BOOLEAN :
       IF resolved
       THEN thrown' = thrown /\ pc' = "getRange"
       ELSE thrown' = Err(MsgInitializeFailed, -1, "", Undef) /\ pc' = "catch"
  /\ UNCHANGED <<env, fetchCalls, rows, i, config, outcome>>
  /\ UNCHANGED <<parseVars, cellVars, validateVars>>

\* lines 47-51: the awaited getRange() resolves to a grid (or to nothing)
\* or rejects
GetRange ==
  /\ pc = "getRange"
  /\ fetchCalls' = fetchCalls + 1
  /\ \/ \E result \in GridInputs :
          rows' = result /\ thrown' = thrown /\ pc' = "checkRows"
     \/ /\ rows' = rows
        /\ thrown' = Err(MsgGetRangeFailed, -1, "", Undef)
        /\ pc' = "catch"
  /\ UNCHANGED <<env, initCalls, i, config, outcome>>
  /\ UNCHANGED <<parseVars, cellVars, validateVars>>

\* lines 53-60
CheckRows ==
  /\ pc = "checkRows"
  /\ IF NoRows(rows)
     THEN thrown' = Err(MsgNoData, -1, "", Undef) /\ pc' = "catch"
          /\ UNCHANGED <<i, config>>
     ELSE thrown' = thrown /\ pc' = "loop" /\ i' = 0 /\ config' = <<>>
  /\ UNCHANGED <<env, initCalls, fetchCalls, rows, outcome>>
  /\ UNCHANGED <<parseVars, cellVars, validateVars>>

\* one iteration of the row loop
ScanRow ==
  /\ pc = "loop"
  /\ i < Len(rows.v)
  /\ config' = ScanOne(config, rows.v[i + 1])
  /\ i' = i + 1
  /\ UNCHANGED <<pc, env, initCalls, fetchCalls, rows, thrown, outcome>>
  /\ UNCHANGED <<parseVars, cellVars, validateVars>>

\* lines 101-108: the loop is over; throw, or call validateConfig(config)
LoopEnd ==
  /\ pc = "loop"
  /\ i = Len(rows.v)
  /\ IF Len(config) = 0
     THEN /\ thrown' = Err(MsgNoValid, -1, "", Undef)
          /\ pc' = "catch"
          /\ UNCHANGED validateVars
     ELSE /\ thrown' = thrown
          /\ pc' = "validateConfig"
          /\ vin' = Arr(config)
          /\ vpc' = "entry"
          /\ vidx' = 0
          /\ examined' = {}
          /\ verr' = NoError
  /\ UNCHANGED <<env, initCalls, fetchCalls, rows, i, config, outcome>>
  /\ UNCHANGED <<parseVars, cellVars>>

\* lines 108-114: validateConfig has returned or thrown
ValidateReturn ==
  /\ pc = "validateConfig"
  /\ vpc = "done"
  /\ IF verr = NoError
     THEN /\ outcome' = [t |-> "return", v |-> config, msg |-> "",
                         cause |-> NoError]
          /\ pc' = "returned"
          /\ thrown' = thrown
     ELSE /\ thrown' = verr
          /\ pc' = "catch"
          /\ outcome' = outcome
  /\ UNCHANGED <<env, initCalls, fetchCalls, rows, i, config>>
  /\ UNCHANGED <<parseVars, cellVars, validateVars>>

\* lines 115-118: every error is rethrown in the envelope
Catch ==
  /\ pc = "catch"
  /\ outcome' = [t |-> "throw", v |-> <<>>, msg |-> MsgLoadFailed,
                 cause |-> thrown]
  /\ pc' = "failed"
  /\ UNCHANGED <<env, initCalls, fetchCalls, rows, i, config, thrown>>
  /\ UNCHANGED <<parseVars, cellVars, validateVars>>

(***************************************************************************)
(* Direct calls of the two exported pure functions.                        *)
(***************************************************************************)
NoParse == [done |-> FALSE, ok |-> FALSE, id |-> <<>>, error |-> NoError]

CallParseSheetIdFromUrl ==
  /\ ~pres.done
  /\ LET r == parseSheetIdFromUrl(purl)
     IN  pres' = [done |-> TRUE, ok |-> r.ok, id |-> r.id, error |-> r.error]
  /\ UNCHANGED <<purl, cellVars, validateVars, loadVars>>

CallIsValidCellAddress ==
  /\ ~cres.done
  /\ cres' = [done |-> TRUE, value |-> isValidCellAddress(cellAddress)]
  /\ UNCHANGED <<cellAddress, parseVars, validateVars, loadVars>>

(***************************************************************************)
(* Specifications.                                                         *)
(***************************************************************************)
IdleParse == purl = <<>> /\ pres = NoParse
IdleCell == cellAddress = Undef /\ cres = [done |-> FALSE, value |-> FALSE]
IdleValidate ==
  vin = Undef /\ vpc = "idle" /\ vidx = 0 /\ examined = {} /\ verr = NoError
IdleLoad ==
  /\ pc = "idle" /\ env = Undef /\ initCalls = 0 /\ fetchCalls = 0
  /\ rows = Undef /\ i = 0 /\ config = <<>> /\ thrown = NoError
  /\ outcome = NoOutcome

\* a run of loadConfig
Init ==
  /\ pc = "start"
  /\ env \in {Undef, Str(<<>>), Str(<<"i","d">>)}
  /\ initCalls = 0 /\ fetchCalls = 0
  /\ rows = Undef /\ i = 0 /\ config = <<>> /\ thrown = NoError
  /\ outcome = NoOutcome
  /\ IdleParse /\ IdleCell /\ IdleValidate

Next ==
  \/ CheckEnv
  \/ Initialize
  \/ GetRange
  \/ CheckRows
  \/ ScanRow
  \/ LoopEnd
  \/ ValidateEntry
  \/ ValidateRecord
  \/ ValidateFinish
  \/ ValidateReturn
  \/ Catch

Spec == Init /\ [][Next]_vars

\* a direct call of validateConfig
InitValidate ==
  /\ vin \in ValidateInputs
  /\ vpc = "entry" /\ vidx = 0 /\ examined = {} /\ verr = NoError
  /\ IdleParse /\ IdleCell /\ IdleLoad

NextValidate == ValidateEntry \/ ValidateRecord \/ ValidateFinish

SpecValidate == InitValidate /\ [][NextValidate]_vars

\* a direct call of parseSheetIdFromUrl
InitParse ==
  /\ purl \in UrlInputs /\ pres = NoParse
  /\ IdleCell /\ IdleValidate /\ IdleLoad

NextParse == CallParseSheetIdFromUrl

SpecParse == InitParse /\ [][NextParse]_vars

\* a direct call of isValidCellAddress
InitCell ==
  /\ cellAddress \in {Str(s) : s \in CellInputs}
  /\ cres = [done |-> FALSE, value |-> FALSE]
  /\ IdleParse /\ IdleValidate /\ IdleLoad

NextCell == CallIsValidCellAddress

SpecCell == InitCell /\ [][NextCell]_vars

(***************************************************************************)
(* Notions the properties are stated with.  They are written from the      *)
(* documented grammar and contract, not from the operators above.          *)
(***************************************************************************)
\* a cell that is absent, empty or only whitespace
Blank(cell) ==
  cell.t = "undefined" \/ \A k \in 1..Len(cell.v) : cell.v[k] \in WhiteSpace

\* the start positions of "/spreadsheets/d/" followed by an identifier
\* character
Occurrences(s) ==
  {p \in 1..Len(s) :
     /\ p + Len(SheetPrefix) <= Len(s)
     /\ \A k \in 1..Len(SheetPrefix) : s[p + k - 1] = SheetPrefix[k]
     /\ s[p + Len(SheetPrefix)] \in IdChar}

HasIdentifier(s) == Occurrences(s) # {}

FirstOccurrence(s) ==
  CHOOSE p \in Occurrences(s) : \A q \in Occurrences(s) : p <= q

\* r is the maximal run of identifier characters of s that starts at b
IsMaximalRunAt(s, b, r) ==
  /\ r # <<>>
  /\ b + Len(r) - 1 <= Len(s)
  /\ \A k \in 1..Len(r) : r[k] = s[b + k - 1] /\ r[k] \in IdChar
  /\ b + Len(r) <= Len(s) => s[b + Len(r)] \notin IdChar

\* the identifier embedded in s, for an s with HasIdentifier(s)
Identifier(s) ==
  LET b == FirstOccurrence(s) + Len(SheetPrefix)
  IN  CHOOSE r \in {SubSeq(s, b, e) : e \in b..Len(s)} :
        IsMaximalRunAt(s, b, r)

\* the cell-address grammar: letters, a non-zero digit, digits
InGrammar(s) ==
  \E k \in 1..(Len(s) - 1) :
     /\ \A j \in 1..k : s[j] \in Upper
     /\ s[k + 1] \in NonZeroDigit
     /\ \A j \in (k + 2)..Len(s) : s[j] \in Digit

\* s without its leading and trailing whitespace
Trimmed(s) ==
  LET keep == {k \in 1..Len(s) : s[k] \notin WhiteSpace}
  IN  IF keep = {} THEN <<>>
      ELSE LET lo == CHOOSE k \in keep : \A j \in keep : k <= j
               hi == CHOOSE k \in keep : \A j \in keep : j <= k
           IN  SubSeq(s, lo, hi)

RowComplete(row) ==
  ~Blank(Cell(row, 0)) /\ ~Blank(Cell(row, 2)) /\ ~Blank(Cell(row, 12))

RowIncomplete(row) == ~RowComplete(row)

\* a row that has the three cells and a resource URL with an identifier
RowUsable(row) == RowComplete(row) /\ HasIdentifier(Cell(row, 2).v)

\* a usable row whose notification endpoint is a URL
RowFullyValid(row) ==
  RowUsable(row) /\ URLParses(Trimmed(Cell(row, 12).v))

\* a row with a missing field or an unparseable resource URL
RowIncompleteOrMalformed(row) ==
  RowIncomplete(row) \/ ~HasIdentifier(Cell(row, 2).v)

\* the record the contract assigns to a usable row
ExpectedRecord(row) ==
  [name |-> Str(Trimmed(Cell(row, 0).v)),
   sheetId |-> Str(Identifier(Cell(row, 2).v)),
   sheetName |-> Str(Sheet1),
   webhookUrl |-> Str(Trimmed(Cell(row, 12).v)),
   currentSuppliesCell |-> Str(C9),
   dailyConsumptionCell |-> Str(C11)]

RECURSIVE ExpectedRecords(_)
\* the records of the fully valid rows of rs, in the order of rs
ExpectedRecords(rs) ==
  IF rs = <<>> THEN <<>>
  ELSE IF RowFullyValid(Head(rs))
  THEN <<ExpectedRecord(Head(rs))>> \o ExpectedRecords(Tail(rs))
  ELSE ExpectedRecords(Tail(rs))

\* the five required fields, as a set, and their rank in the documented
\* order of the checks
Required ==
  {"name", "sheetId", "webhookUrl", "currentSuppliesCell",
   "dailyConsumptionCell"}
Rank(f) ==
  CASE f = "name" -> 1
    [] f = "sheetId" -> 2
    [] f = "webhookUrl" -> 3
    [] f = "currentSuppliesCell" -> 4
    [] f = "dailyConsumptionCell" -> 5

Present(x) == x.t # "undefined" /\ x.v # <<>>
MissingFields(r) == {f \in Required : ~Present(r[f])}

\* a record with the five fields, an endpoint that is a URL and two cell
\* addresses of the grammar
WellFormed(r) ==
  /\ MissingFields(r) = {}
  /\ URLParses(r.webhookUrl.v)
  /\ InGrammar(r.currentSuppliesCell.v)
  /\ InGrammar(r.dailyConsumptionCell.v)

\* the 0-based indexes of the records of a that are not well formed
Violating(a) == {k \in 0..(Len(a) - 1) : ~WellFormed(a[k + 1])}

Settled == pc \in {"returned", "failed"}
GridFetched == rows.t = "array"

(***************************************************************************)
(* Properties.                                                             *)
(***************************************************************************)

\* C7: parseSheetIdFromUrl returns the maximal run of [A-Za-z0-9-_] that
\* follows the first "/spreadsheets/d/" followed by such a character; it
\* throws, with the url in the error, exactly when there is no such
\* occurrence; it never returns the empty string.
C7_ExtractsIdentifier ==
  pres.done =>
    /\ pres.ok <=> HasIdentifier(purl)
    /\ pres.ok =>
         /\ pres.id # <<>>
         /\ IsMaximalRunAt(purl, FirstOccurrence(purl) + Len(SheetPrefix),
                           pres.id)
    /\ ~pres.ok =>
         /\ pres.error.msg = "Invalid Google Sheets URL: "
         /\ pres.error.value = Str(purl)

\* a call that returned an identifier which starts after an earlier
\* "/spreadsheets/d/" without identifier and ends before the end of the url
C7_Witness ==
  /\ pres.done /\ pres.ok
  /\ LiteralAt(purl, 1)
  /\ FirstOccurrence(purl) > 1
  /\ Len(pres.id) > 1
  /\ FirstOccurrence(purl) + Len(SheetPrefix) + Len(pres.id) <= Len(purl)

\* C8: isValidCellAddress returns true exactly for one or more letters
\* A-Z, then one digit 1-9, then digits 0-9; it accepts "A1", "C9", "AA10",
\* rejects "a1", "A0", "A01", "1A" and "", and always returns a boolean.
C8_CellGrammar ==
  cres.done =>
    /\ cres.value \in BOOLEAN
    /\ cres.value <=> InGrammar(cellAddress.v)
    /\ cellAddress.v \in {<<"A","1">>, <<"C","9">>, <<"A","A","1","0">>}
         => cres.value
    /\ cellAddress.v \in {<<"a","1">>, <<"A","0">>, <<"A","0","1">>,
                          <<"1","A">>, <<>>}
         => ~cres.value

\* the call with "AA10" has returned true
C8_Witness ==
  cres.done /\ cres.value /\ cellAddress.v = <<"A","A","1","0">>

\* C5: validateConfig completes without error for every non-empty array of
\* records that have the five required fields, an endpoint that parses as
\* a URL and two cell fields of the grammar, and raises an error for every
\* array with at least one record that lacks one of these.
C5_AcceptsExactlyWellFormed ==
  (vpc = "done" /\ IsArray(vin) /\ Len(vin.v) > 0) =>
    (verr = NoError <=> Violating(vin.v) = {})

\* validateConfig has returned normally for an array of two records
C5_Witness ==
  /\ pc = "idle" /\ vpc = "done" /\ verr = NoError
  /\ IsArray(vin) /\ Len(vin.v) = 2

\* C6: validateConfig reports exactly one violation, the first one: an
\* argument that is not an array or is empty fails before any record is
\* examined; otherwise the records are examined in index order and, in the
\* first violating record, a missing field (name, sheetId, webhookUrl,
\* currentSuppliesCell, dailyConsumptionCell, in this order) comes before
\* an invalid webhook URL, which comes before an invalid
\* currentSuppliesCell, which comes before an invalid dailyConsumptionCell;
\* no record after the first violating one is examined, and the error
\* names the index and the field or value.
C6_FirstViolationReported ==
  vpc = "done" =>
    IF ~IsArray(vin) \/ Len(vin.v) = 0
    THEN /\ verr.msg \in {MsgNotArray, MsgEmptyArray}
         /\ verr.msg = MsgNotArray <=> ~IsArray(vin)
         /\ examined = {}
    ELSE IF Violating(vin.v) = {}
    THEN verr = NoError /\ examined = 0..(Len(vin.v) - 1)
    ELSE LET k == CHOOSE m \in Violating(vin.v) :
                    \A n \in Violating(vin.v) : m <= n
             r == vin.v[k + 1]
         IN  /\ examined = 0..k
             /\ verr.index = k
             /\ IF MissingFields(r) # {}
                THEN /\ verr.msg = "is missing required field: "
                     /\ verr.field \in MissingFields(r)
                     /\ \A f \in MissingFields(r) : Rank(verr.field) <= Rank(f)
                ELSE IF ~URLParses(r.webhookUrl.v)
                THEN /\ verr.msg = "has invalid webhook URL: "
                     /\ verr.value = r.webhookUrl
                ELSE IF ~InGrammar(r.currentSuppliesCell.v)
                THEN /\ verr.msg = "has invalid currentSuppliesCell: "
                     /\ verr.value = r.currentSuppliesCell
                ELSE /\ verr.msg = "has invalid dailyConsumptionCell: "
                     /\ verr.value = r.dailyConsumptionCell

\* validateConfig has thrown for the first of two records, which has both
\* an invalid webhook URL and an invalid cell address, and has not examined
\* the second record, which is not well formed either
C6_Witness ==
  /\ pc = "idle" /\ vpc = "done"
  /\ IsArray(vin) /\ Len(vin.v) = 2
  /\ verr.index = 0
  /\ verr.msg = "has invalid webhook URL: "
  /\ ~InGrammar(vin.v[1].dailyConsumptionCell.v)
  /\ ~WellFormed(vin.v[2])
  /\ 1 \notin examined

\* C1: in the row loop of loadConfig, a row in which one of the three
\* required cells (positions 0, 2, 12) is empty, absent or only whitespace
\* is skipped: no record is produced for it and the scan goes on with the
\* next row.
C1_IncompleteRowSkipped ==
  [][(pc = "loop" /\ i < Len(rows.v) /\ RowIncomplete(rows.v[i + 1]))
       => (config' = config /\ pc' = "loop")]_vars

\* C2: for a non-empty grid with at least one fully valid row, the other
\* rows being incomplete or malformed (a missing field, an unparseable
\* resource URL), loadConfig raises no fatal error and returns exactly the
\* records of the valid rows, in the order of the rows.
C2_ValidRowsReturned ==
  (/\ Settled /\ GridFetched
   /\ \E k \in 1..Len(rows.v) : RowFullyValid(rows.v[k])
   /\ \A k \in 1..Len(rows.v) :
        RowFullyValid(rows.v[k]) \/ RowIncompleteOrMalformed(rows.v[k]))
  => (outcome.t = "return" /\ outcome.v = ExpectedRecords(rows.v))

C4_EmptyAndNoValidDistinct ==
  LET absent == rows.t # "array" \/ Len(rows.v) = 0
      yields(row) ==
        /\ Present(Cell(row, 0)) /\ Present(Cell(row, 2))
        /\ Present(Cell(row, 12)) /\ HasIdentifier(Cell(row, 2).v)
      fetched == fetchCalls = 1 /\ outcome.cause.msg # MsgGetRangeFailed
  IN  /\ MsgNoData # MsgNoValid
      /\ (Settled /\ fetched) =>
           /\ absent <=> (pc = "failed" /\ outcome.cause.msg = MsgNoData)
           /\ (~absent /\ \A k \in 1..Len(rows.v) : ~yields(rows.v[k]))
                <=> (pc = "failed" /\ outcome.cause.msg = MsgNoValid)
      /\ (Settled /\ ~fetched) => outcome.cause.msg \notin {MsgNoData, MsgNoValid}

\* loadConfig has failed with the "no valid commander configurations"
\* error on a grid of two rows
C4_Witness ==
  /\ pc = "failed" /\ outcome.cause.msg = MsgNoValid
  /\ GridFetched /\ Len(rows.v) = 2

\* C9: when DATABASE_SHEET_ID is absent or empty, the run ends in the
\* configuration error, the client is never initialised and getRange is
\* never called; when it is present, getRange is called at most once and
\* the row scan starts only after that call has completed.
C9_EnvCheckedBeforeFetch ==
  /\ (env.t = "undefined" \/ env.v = <<>>) =>
       /\ initCalls = 0 /\ fetchCalls = 0
       /\ pc \in {"start", "catch", "failed"}
       /\ pc = "catch" => thrown.msg = MsgEnvRequired
       /\ pc = "failed" =>
            outcome.t = "throw" /\ outcome.cause.msg = MsgEnvRequired
  /\ fetchCalls <= 1
  /\ pc \in {"checkRows", "loop", "validateConfig", "returned"} =>
       initCalls = 1 /\ fetchCalls = 1
  /\ pc \in {"start", "initialize", "getRange"} =>
       fetchCalls = 0 /\ i = 0 /\ config = <<>>

\* the run with an empty DATABASE_SHEET_ID has failed
C9_Witness ==
  env = Str(<<>>) /\ pc = "failed" /\ outcome.t = "throw"

\* C10: when loadConfig returns an array, the array is not empty and every
\* record has a non-empty name without surrounding whitespace, a non-empty
\* sheetId of characters [A-Za-z0-9-_], a webhookUrl that parses as a URL,
\* sheetName "Sheet1", currentSuppliesCell "C9" and dailyConsumptionCell
\* "C11".
C10_ReturnedRecordsValid ==
  outcome.t = "return" =>
    /\ Len(outcome.v) > 0
    /\ \A k \in 1..Len(outcome.v) :
         LET r == outcome.v[k]
         IN  /\ r.name.t = "string" /\ r.name.v # <<>>
             /\ r.name.v[1] \notin WhiteSpace
             /\ r.name.v[Len(r.name.v)] \notin WhiteSpace
             /\ r.sheetId.t = "string" /\ r.sheetId.v # <<>>
             /\ \A j \in 1..Len(r.sheetId.v) : r.sheetId.v[j] \in IdChar
             /\ r.webhookUrl.t = "string"
             /\ URLParses(r.webhookUrl.v)
             /\ r.sheetName = Str(Sheet1)
             /\ r.currentSuppliesCell = Str(C9)
             /\ r.dailyConsumptionCell = Str(C11)

\* loadConfig has returned one record for a grid that also holds a row
\* that was dropped
C10_Witness ==
  /\ pc = "returned" /\ outcome.t = "return"
  /\ Len(rows.v) = 2 /\ Len(outcome.v) = 1

====
